---- MODULE Spec2Model ----
(***************************************************************************)
(* Two-party WebRTC signaling: the socket.io server of src/server.js       *)
(* (participant registry, initiator elector, negotiation relay) and the    *)
(* browser client whose code is reproduced in src/unnamed/part_001         *)
(* (connection state machine with its ICE candidate queue).                *)
(*                                                                         *)
(* A client machine is one browser page.  Its JavaScript state survives a  *)
(* transport drop: the socket.io client made by io() reconnects under a    *)
(* fresh socket id, so a machine can be known to the server under several  *)
(* ids, one after the other.  Socket ids are never reused.                 *)
(*                                                                         *)
(* Every await in the client code is a suspension point: the code up to    *)
(* the next await is one atomic step, the resolution of the awaited        *)
(* promise is the next step of that handler invocation (a task).           *)
(* The RTCPeerConnection is the external capability; it is modelled by     *)
(* its signaling state machine only.  Its calls succeed when the           *)
(* signaling state allows them and reject (InvalidStateError) otherwise.   *)
(***************************************************************************)
EXTENDS Integers, Sequences, FiniteSets, TLC

\* ---- bounds ------------------------------------------------------------
\* machines (browser pages); they are numbered in the order they load
NumClients == 3
\* steps the environment may take in a run of Spec (sockets opened and
\* closed, clicks on the start button, ICE candidates gathered), and how
\* many of them may be candidates
MaxEnv == 5
MaxCand == 1
\* the same in a run of SignalSpec, where no candidate is gathered
SigMaxEnv == 7
\* candidates gathered in a run of PairSpec
PairMaxCand == 3
\* candidates gathered in a run of LiveSpec
LiveMaxCand == 2
\* steps of the environment in a run of RegistrySpec
RegMaxEnv == 7
\* steps of the environment in a run of TurnSpec
TurnMaxEnv == 4
\* candidates gathered in a run of OfferSpec
OfferMaxCand == 2
\* steps of the environment in a run of MediaSpec
MediaMaxEnv == 5
\* steps of the environment in a run of SessionsSpec
SessMaxEnv == 10
\* steps of the environment in a run of TrioSpec and of DropSpec
TrioMaxEnv == 6
DropMaxEnv == 8
\* candidates gathered in a run of IceSpec
IceMaxCand == 1

Clients == 1..NumClients

VARIABLES
  clients,             \* server: ids of the connected sockets (keys of the Map)
  readyClients,        \* server: the Set of ready ids, in insertion order
  nextId,              \* server: next fresh socket id
  userCount,           \* the user-count broadcast last
  readyCount,          \* the ready-count broadcast last
  readyArrival,        \* history: connected ids by arrival of their first `ready`
  inbox,               \* per machine: server -> client events in flight (FIFO)
  outbox,              \* per machine: client -> server events in flight (FIFO)
  sockId,              \* per machine: socket.id, 0 while not connected
  loaded,              \* per machine: the page is open, initSocket() has run
  iceServers,          \* per machine: configuration.iceServers
  turnFetch,           \* per machine: where loadTurnCredentials() stands
  gum,                 \* per machine: pending getUserMedia() promises
  startDisabled,       \* per machine: startBtn.disabled
  localStream,         \* per machine: localStream is set
  peerConnection,      \* per machine: peerConnection is set
  isInitiator,         \* per machine: isInitiator
  dataChannel,         \* per machine: "none", "created" or "received"
  signalingState,      \* per machine: peerConnection.signalingState
  localDescription,    \* per machine: type of peerConnection.localDescription
  remoteDescription,   \* per machine: peerConnection.remoteDescription
  connectionState,     \* per machine: peerConnection.connectionState
  iceCandidateQueue,   \* per machine: iceCandidateQueue
  tasks,               \* per machine: suspended handler invocations
  candSent,            \* per machine: candidates gathered and emitted so far
  received,            \* history: candidates in the order handleIceCandidate got them
  applied,             \* history: candidates in the order addIceCandidate was called
  buffered,            \* history: candidates in the order they were queued
  srcObject,           \* per machine: what remoteVideo.srcObject was set by
  receivers,           \* per machine: the receivers of the connection have tracks
  trackEvents,         \* per machine: track events not yet handled by ontrack
  startRole,           \* history: branch taken by the start-call handler
  exchanges,           \* history: answers applied as remote description so far
  pcEpoch,             \* history: value of nextId when the peer connection was created
  last,                \* history: the handler that ran last and its outcome
  budget               \* what is left of the environment's bounds

srvVars == <<clients, readyClients, nextId, userCount, readyCount, readyArrival>>
chanVars == <<inbox, outbox>>
cfgVars == <<iceServers, turnFetch>>
userVars == <<loaded, gum, startDisabled, localStream, cfgVars>>
pcVars == <<peerConnection, isInitiator, dataChannel, signalingState,
            localDescription, remoteDescription, connectionState>>
iceVars == <<iceCandidateQueue, candSent, received, applied, buffered>>
mediaVars == <<srcObject, receivers, trackEvents>>
histVars == <<startRole, exchanges, pcEpoch>>
vars == <<srvVars, chanVars, sockId, userVars, pcVars, iceVars, tasks,
          mediaVars, histVars, last, budget>>

\* ---- helpers -----------------------------------------------------------
\* the STUN servers the page's configuration starts with
DefaultIceServers == {"stun.l.google.com", "stun1.l.google.com"}
\* the servers of a Twilio token
TwilioIceServers == {"global.stun.twilio.com", "global.turn.twilio.com"}

NoBody == <<0, 0>>
Msg(t, f, b) == [type |-> t, from |-> f, body |-> b]
Last(m, e, o) == [m |-> m, ev |-> e, out |-> o]
NoLast == Last(0, "", "")
NoDesc == [type |-> "none", from |-> 0, body |-> NoBody]

InSeq(x, s) == \E i \in 1..Len(s) : s[i] = x
SeqWithout(s, x) == SelectSeq(s, LAMBDA y : y # x)

\* (variant: an add that appends also a member)
AlwaysAppend(s, x) == Append(s, x)
\* Set.add: insertion order is kept, re-adding a member changes nothing
SetAdd(s, x) == IF InSeq(x, s) THEN s ELSE Append(s, x)
\* (variant: a delete that removes nothing)
SetKeep(s, x) == s
\* Set.delete
SetDelete(s, x) == SeqWithout(s, x)

Connected == {k \in Clients : sockId[k] # 0}

\* (variant: an emit that reaches nobody)
DeliverNothing(inb, S, msg) == inb
\* io.emit / socket.broadcast.emit: append to the inbox of every machine in S
Deliver(inb, S, msg) ==
  [k \in Clients |-> IF k \in S THEN Append(inb[k], msg) ELSE inb[k]]

\* socket.emit on the client (buffered by socket.io while disconnected)
Emit(m, msg) == outbox' = [outbox EXCEPT ![m] = Append(@, msg)]

\* ---- initial state -----------------------------------------------------
InitState ==
  /\ clients = {}
  /\ readyClients = <<>>
  /\ nextId = 1
  /\ userCount = 0
  /\ readyCount = 0
  /\ readyArrival = <<>>
  /\ inbox = [m \in Clients |-> <<>>]
  /\ outbox = [m \in Clients |-> <<>>]
  /\ sockId = [m \in Clients |-> 0]
  /\ loaded = [m \in Clients |-> FALSE]
  /\ iceServers = [m \in Clients |-> DefaultIceServers]
  /\ turnFetch = [m \in Clients |-> "none"]
  /\ gum = [m \in Clients |-> 0]
  /\ startDisabled = [m \in Clients |-> FALSE]
  /\ localStream = [m \in Clients |-> FALSE]
  /\ peerConnection = [m \in Clients |-> FALSE]
  /\ isInitiator = [m \in Clients |-> FALSE]
  /\ dataChannel = [m \in Clients |-> "none"]
  /\ signalingState = [m \in Clients |-> "none"]
  /\ localDescription = [m \in Clients |-> "none"]
  /\ remoteDescription = [m \in Clients |-> NoDesc]
  /\ connectionState = [m \in Clients |-> "none"]
  /\ iceCandidateQueue = [m \in Clients |-> <<>>]
  /\ tasks = [m \in Clients |-> {}]
  /\ candSent = [m \in Clients |-> 0]
  /\ received = [m \in Clients |-> <<>>]
  /\ applied = [m \in Clients |-> <<>>]
  /\ buffered = [m \in Clients |-> <<>>]
  /\ srcObject = [m \in Clients |-> "none"]
  /\ receivers = [m \in Clients |-> FALSE]
  /\ trackEvents = [m \in Clients |-> 0]
  /\ startRole = [m \in Clients |-> "none"]
  /\ exchanges = 0
  /\ pcEpoch = [m \in Clients |-> 0]
  /\ last = NoLast

Budget(p, k, e) == [pages |-> p, cands |-> k, env |-> e]

Init == InitState /\ budget = Budget(NumClients, MaxCand, MaxEnv)

\* two pages and no candidates
InitSignal == InitState /\ budget = Budget(2, 0, SigMaxEnv)

\* two pages, the four steps that bring both to ready, PairMaxCand candidates
InitPair == InitState /\ budget = Budget(2, PairMaxCand, 4 + PairMaxCand)

\* two pages, the four steps that bring both to ready, LiveMaxCand candidates
InitLive == InitState /\ budget = Budget(2, LiveMaxCand, 4 + LiveMaxCand)

\* every page, no candidates
InitRegistry == InitState /\ budget = Budget(NumClients, 0, RegMaxEnv)

\* two pages and no candidates
InitTurn == InitState /\ budget = Budget(2, 0, TurnMaxEnv)

\* two pages, the four steps that bring both to ready, OfferMaxCand candidates
InitOffer == InitState /\ budget = Budget(2, OfferMaxCand, 4 + OfferMaxCand)

\* three pages and no candidates
InitTrio == InitState /\ budget = Budget(3, 0, TrioMaxEnv)

\* three pages, the six steps that bring them to ready, IceMaxCand candidates
InitIce == InitState /\ budget = Budget(3, IceMaxCand, 6 + IceMaxCand)

\* two pages and no candidates
InitMedia == InitState /\ budget = Budget(2, 0, MediaMaxEnv)

\* two pages and no candidates
InitSessions == InitState /\ budget = Budget(2, 0, SessMaxEnv)

\* three pages and no candidates
InitDrop == InitState /\ budget = Budget(3, 0, DropMaxEnv)

\* ---- server: registry, elector, relay ----------------------------------
\* io.on('connection'): also the reconnection of a machine under a new id
Connection(m) ==
  /\ sockId[m] = 0
  /\ m <= budget.pages
  /\ IF loaded[m] \/ m = 1 THEN TRUE ELSE loaded[m - 1]
  /\ budget.env > 0
  /\ budget' = [budget EXCEPT !.env = @ - 1]
  /\ loaded' = [loaded EXCEPT ![m] = TRUE]
  /\ turnFetch' = IF loaded[m] THEN turnFetch
                  ELSE [turnFetch EXCEPT ![m] = "pending"]
  /\ sockId' = [sockId EXCEPT ![m] = nextId]
  /\ nextId' = nextId + 1
  /\ clients' = clients \cup {nextId}
  /\ userCount' = Cardinality(clients')
  /\ last' = NoLast
  /\ UNCHANGED <<readyClients, readyCount, readyArrival, chanVars, gum,
                 startDisabled, localStream, iceServers, pcVars, iceVars,
                 tasks, mediaVars, histVars>>

\* the elector: which member of the ready set is designated
\* (variant: the member that connected first, i.e. the smallest socket id)
InitiatorByConnection(ready) ==
  CHOOSE i \in {ready[k] : k \in 1..Len(ready)} :
    \A j \in {ready[k] : k \in 1..Len(ready)} : i <= j

Initiator(ready) == ready[1]

\* the condition under which the elector fires
\* (variant: an election that fires as soon as one socket is ready)
ElectorFiresFromOne(ready) == Len(ready) >= 1
\* (variant: `>= 2` instead of `=== 2`)
ElectorFiresFromTwo(ready) == Len(ready) >= 2

ElectorFires(ready) == Len(ready) = 2

\* (variant: a count that leaves out the socket just added)
ReadyCountOfOthers(ready) == Len(ready) - 1
\* io.emit('ready-count', readyClients.size)
ReadyCountEvent(ready) == Len(ready)

\* socket.on('ready')
OnReady(m) ==
  /\ sockId[m] # 0
  /\ outbox[m] # <<>>
  /\ Head(outbox[m]).type = "ready"
  /\ outbox' = [outbox EXCEPT ![m] = Tail(@)]
  /\ readyClients' = SetAdd(readyClients, sockId[m])
  /\ readyArrival' = IF InSeq(sockId[m], readyArrival) THEN readyArrival
                     ELSE readyArrival \o <<sockId[m]>>
  /\ readyCount' = ReadyCountEvent(readyClients')
  /\ IF ElectorFires(readyClients')
       THEN inbox' = Deliver(inbox, Connected,
                       Msg("start-call", 0, <<Initiator(readyClients'), 0>>))
       ELSE inbox' = inbox
  /\ last' = NoLast
  /\ UNCHANGED <<clients, nextId, userCount, sockId, userVars, pcVars, iceVars,
                 tasks, mediaVars, histVars, budget>>

\* (variant: a relay that also tells every socket to start a session)
ForwardAndStart(m, t) ==
  Deliver(Deliver(inbox, Connected \ {m},
                  Msg(t, sockId[m], Head(outbox[m]).body)),
          Connected, Msg("start-call", 0, <<sockId[m], 0>>))

\* (variant: a relay that keeps the message for pages without an open socket)
ForwardToEveryPage(m, t) ==
  Deliver(inbox, Clients \ {m}, Msg(t, sockId[m], Head(outbox[m]).body))

\* (variant: io.emit instead of socket.broadcast.emit)
ForwardToAll(m, t) ==
  Deliver(inbox, Connected, Msg(t, sockId[m], Head(outbox[m]).body))

\* socket.broadcast.emit(t, {payload, from: socket.id})
Forward(m, t) ==
  Deliver(inbox, Connected \ {m}, Msg(t, sockId[m], Head(outbox[m]).body))

\* socket.on('offer')
OnOffer(m) ==
  /\ sockId[m] # 0
  /\ outbox[m] # <<>>
  /\ Head(outbox[m]).type = "offer"
  /\ outbox' = [outbox EXCEPT ![m] = Tail(@)]
  /\ inbox' = Forward(m, "offer")
  /\ last' = NoLast
  /\ UNCHANGED <<srvVars, sockId, userVars, pcVars, iceVars, tasks, mediaVars, histVars,
                 budget>>

\* socket.on('answer')
OnAnswer(m) ==
  /\ sockId[m] # 0
  /\ outbox[m] # <<>>
  /\ Head(outbox[m]).type = "answer"
  /\ outbox' = [outbox EXCEPT ![m] = Tail(@)]
  /\ inbox' = Forward(m, "answer")
  /\ last' = NoLast
  /\ UNCHANGED <<srvVars, sockId, userVars, pcVars, iceVars, tasks, mediaVars, histVars,
                 budget>>

\* socket.on('ice-candidate')
OnIceCandidate(m) ==
  /\ sockId[m] # 0
  /\ outbox[m] # <<>>
  /\ Head(outbox[m]).type = "ice-candidate"
  /\ outbox' = [outbox EXCEPT ![m] = Tail(@)]
  /\ inbox' = Forward(m, "ice-candidate")
  /\ last' = NoLast
  /\ UNCHANGED <<srvVars, sockId, userVars, pcVars, iceVars, tasks, mediaVars, histVars,
                 budget>>

\* (variant: a disconnect handler that runs the election on the shrunken
\* ready set)
OnDisconnectElecting(m) ==
  /\ sockId[m] # 0
  /\ budget.env > 0
  /\ budget' = [budget EXCEPT !.env = @ - 1]
  /\ clients' = clients \ {sockId[m]}
  /\ readyClients' = SetDelete(readyClients, sockId[m])
  /\ readyArrival' = SelectSeq(readyArrival, LAMBDA i : i # sockId[m])
  /\ userCount' = Cardinality(clients')
  /\ sockId' = [sockId EXCEPT ![m] = 0]
  /\ inbox' = IF Len(readyClients') = 2
                THEN Deliver([inbox EXCEPT ![m] = <<>>], Connected \ {m},
                             Msg("start-call", 0, <<readyClients'[1], 0>>))
                ELSE [inbox EXCEPT ![m] = <<>>]
  /\ outbox' = [outbox EXCEPT ![m] = <<>>]
  /\ last' = NoLast
  /\ UNCHANGED <<nextId, readyCount, userVars, pcVars, iceVars, tasks,
                 mediaVars, histVars>>

\* socket.on('disconnect'): events in flight on the closed socket are lost
OnDisconnect(m) ==
  /\ sockId[m] # 0
  /\ budget.env > 0
  /\ budget' = [budget EXCEPT !.env = @ - 1]
  /\ clients' = clients \ {sockId[m]}
  /\ readyClients' = SetDelete(readyClients, sockId[m])
  /\ readyArrival' = SelectSeq(readyArrival, LAMBDA i : i # sockId[m])
  /\ userCount' = Cardinality(clients')
  /\ sockId' = [sockId EXCEPT ![m] = 0]
  /\ inbox' = [inbox EXCEPT ![m] = <<>>]
  /\ outbox' = [outbox EXCEPT ![m] = <<>>]
  /\ last' = NoLast
  /\ UNCHANGED <<nextId, readyCount, userVars, pcVars, iceVars, tasks,
                 mediaVars, histVars>>

\* ---- client: start button ----------------------------------------------
\* startBtn.onclick up to `await getUserMedia`
Click(m) ==
  /\ loaded[m]
  /\ ~startDisabled[m]
  /\ budget.env > 0
  /\ budget' = [budget EXCEPT !.env = @ - 1]
  /\ gum' = [gum EXCEPT ![m] = @ + 1]
  /\ last' = NoLast
  /\ UNCHANGED <<srvVars, chanVars, sockId, loaded, startDisabled, localStream,
                 cfgVars, pcVars, iceVars, tasks, mediaVars, histVars>>

\* startBtn.onclick after getUserMedia resolved
GetUserMediaResolved(m) ==
  /\ gum[m] > 0
  /\ gum' = [gum EXCEPT ![m] = @ - 1]
  /\ localStream' = [localStream EXCEPT ![m] = TRUE]
  /\ startDisabled' = [startDisabled EXCEPT ![m] = TRUE]
  /\ Emit(m, Msg("ready", 0, NoBody))
  /\ last' = NoLast
  /\ UNCHANGED <<srvVars, inbox, sockId, loaded, cfgVars, pcVars, iceVars,
                 tasks, mediaVars, histVars, budget>>

\* ---- client: loadTurnCredentials ----------------------------------------
\* how a fetch of /turn-credentials can end: fetch() or response.json()
\* throws; the server's catch answers 500 {error}; Twilio's reply has no
\* ice_servers, so the server answers {}; the server answers {iceServers}
TurnOutcomes == {"exception", "error-response", "no-list", "list"}
TurnFailures == {"exception", "error-response", "no-list"}

\* data.iceServers of the parsed response: undefined, or the list
Field(d, l) == [defined |-> d, list |-> l]
TurnCredentials(o) ==
  IF o = "list" THEN Field(TRUE, TwilioIceServers) ELSE Field(FALSE, {})

\* (variant: the assignment without the test of data.iceServers)
NewIceServersUnguarded(cur, f) == f.list
\* if (data.iceServers) configuration.iceServers = data.iceServers
NewIceServers(cur, f) == IF f.defined THEN f.list ELSE cur

\* loadTurnCredentials() after its awaits, or in its catch
LoadTurnCredentialsResolved(m) ==
  /\ turnFetch[m] = "pending"
  /\ \E o \in TurnOutcomes :
       /\ turnFetch' = [turnFetch EXCEPT ![m] = o]
       /\ iceServers' = [iceServers EXCEPT ![m] =
                           IF o = "exception" THEN @
                           ELSE NewIceServers(@, TurnCredentials(o))]
  /\ last' = NoLast
  /\ UNCHANGED <<srvVars, chanVars, sockId, loaded, gum, startDisabled,
                 localStream, pcVars, iceVars, tasks, mediaVars, histVars, budget>>

\* ---- client: the RTCPeerConnection capability ---------------------------
Task(k, st, f, b) == [kind |-> k, stage |-> st, from |-> f, body |-> b]
Desc(t, f, b) == [type |-> t, from |-> f, body |-> b]

\* (variant: a peer connection setup that creates the channel in either role)
DataChannelSetupAlways(init, cur) == "created"
\* if (isInitiator) { dataChannel = peerConnection.createDataChannel('chat') }
\* else { peerConnection.ondatachannel = ... }
DataChannelSetup(init, cur) == IF init THEN "created" ELSE cur

\* new RTCPeerConnection(configuration)
NewPeerConnection(m) ==
  /\ peerConnection' = [peerConnection EXCEPT ![m] = TRUE]
  /\ signalingState' = [signalingState EXCEPT ![m] = "stable"]
  /\ connectionState' = [connectionState EXCEPT ![m] = "new"]

\* peerConnection.remoteDescription && peerConnection.remoteDescription.type
RemoteDescriptionSet(m) == remoteDescription[m].type # "none"

\* (variant: a drain that takes the newest candidate first)
Pop(q) == [taken |-> q[Len(q)], left |-> SubSeq(q, 1, Len(q) - 1)]
\* iceCandidateQueue.shift(): the element taken and what is left
Shift(q) == [taken |-> Head(q), left |-> Tail(q)]

\* (variant: a queue that keeps only the newest candidate)
Overwrite(q, c) == <<c>>
\* iceCandidateQueue.push(candidate)
Push(q, c) == Append(q, c)

\* ---- the page is closed ------------------------------------------------
\* the user closes (or reloads) the page: its socket closes, the server's
\* disconnect handler runs, and every global of the script is gone; a page
\* loaded afterwards starts from the declarations again
ClosePage(m) ==
  /\ loaded[m]
  /\ sockId[m] # 0
  /\ budget.env > 0
  /\ budget' = [budget EXCEPT !.env = @ - 1]
  /\ clients' = clients \ {sockId[m]}
  /\ readyClients' = SetDelete(readyClients, sockId[m])
  /\ readyArrival' = SelectSeq(readyArrival, LAMBDA i : i # sockId[m])
  /\ userCount' = Cardinality(clients')
  /\ sockId' = [sockId EXCEPT ![m] = 0]
  /\ inbox' = [inbox EXCEPT ![m] = <<>>]
  /\ outbox' = [outbox EXCEPT ![m] = <<>>]
  /\ loaded' = [loaded EXCEPT ![m] = FALSE]
  /\ iceServers' = [iceServers EXCEPT ![m] = DefaultIceServers]
  /\ turnFetch' = [turnFetch EXCEPT ![m] = "none"]
  /\ gum' = [gum EXCEPT ![m] = 0]
  /\ startDisabled' = [startDisabled EXCEPT ![m] = FALSE]
  /\ localStream' = [localStream EXCEPT ![m] = FALSE]
  /\ peerConnection' = [peerConnection EXCEPT ![m] = FALSE]
  /\ isInitiator' = [isInitiator EXCEPT ![m] = FALSE]
  /\ dataChannel' = [dataChannel EXCEPT ![m] = "none"]
  /\ signalingState' = [signalingState EXCEPT ![m] = "none"]
  /\ localDescription' = [localDescription EXCEPT ![m] = "none"]
  /\ remoteDescription' = [remoteDescription EXCEPT ![m] = NoDesc]
  /\ connectionState' = [connectionState EXCEPT ![m] = "none"]
  /\ iceCandidateQueue' = [iceCandidateQueue EXCEPT ![m] = <<>>]
  /\ tasks' = [tasks EXCEPT ![m] = {}]
  /\ candSent' = [candSent EXCEPT ![m] = 0]
  /\ received' = [received EXCEPT ![m] = <<>>]
  /\ applied' = [applied EXCEPT ![m] = <<>>]
  /\ buffered' = [buffered EXCEPT ![m] = <<>>]
  /\ srcObject' = [srcObject EXCEPT ![m] = "none"]
  /\ receivers' = [receivers EXCEPT ![m] = FALSE]
  /\ trackEvents' = [trackEvents EXCEPT ![m] = 0]
  /\ startRole' = [startRole EXCEPT ![m] = "none"]
  /\ pcEpoch' = [pcEpoch EXCEPT ![m] = 0]
  /\ last' = NoLast
  /\ UNCHANGED <<nextId, readyCount, exchanges>>

\* ---- client: socket.on('start-call') -------------------------------------
\* (variant: a guard without the peer connection test)
StartCallGuardMediaOnly(m) == localStream[m]
\* if (!peerConnection && localStream)
StartCallGuard(m) == ~peerConnection[m] /\ localStream[m]

\* (variant: a start-call handler that always takes the initiator branch)
DesignatedAlways(m, initiator) == TRUE
\* (variant: a start-call handler that never takes the initiator branch)
DesignatedNever(m, initiator) == FALSE
\* data && data.initiator === socket.id
IsDesignated(m, initiator) == initiator = sockId[m]

RecvStartCall(m) ==
  /\ inbox[m] # <<>>
  /\ Head(inbox[m]).type = "start-call"
  /\ inbox' = [inbox EXCEPT ![m] = Tail(@)]
  /\ IF StartCallGuard(m)
       THEN IF IsDesignated(m, Head(inbox[m]).body[1])
              THEN \* isInitiator = true; createPeerConnection();
                   \* createAndSendOffer() up to `await createOffer()`
                   /\ isInitiator' = [isInitiator EXCEPT ![m] = TRUE]
                   /\ NewPeerConnection(m)
                   /\ dataChannel' = [dataChannel EXCEPT ![m] =
                                        DataChannelSetup(TRUE, @)]
                   /\ tasks' = [tasks EXCEPT ![m] =
                                  @ \cup {Task("start", "createOffer", 0, NoBody)}]
                   /\ startRole' = [startRole EXCEPT ![m] = "initiator"]
                   /\ pcEpoch' = [pcEpoch EXCEPT ![m] = nextId]
                   /\ last' = Last(m, "start-call", "initiator")
                   /\ UNCHANGED <<localDescription, remoteDescription>>
              ELSE /\ startRole' = [startRole EXCEPT ![m] = "answerer"]
                   /\ last' = Last(m, "start-call", "waiting")
                   /\ UNCHANGED <<pcVars, tasks, pcEpoch>>
       ELSE /\ last' = Last(m, "start-call", "ignored")
            /\ UNCHANGED <<pcVars, tasks, startRole, pcEpoch>>
  /\ UNCHANGED <<srvVars, outbox, sockId, userVars, iceVars, mediaVars,
                 exchanges, budget>>

\* createAndSendOffer: createOffer() resolved, setLocalDescription(offer) called
CreateOfferResolved(m) ==
  /\ Task("start", "createOffer", 0, NoBody) \in tasks[m]
  /\ tasks' = [tasks EXCEPT ![m] =
                 (@ \ {Task("start", "createOffer", 0, NoBody)})
                 \cup {Task("start", "setLocalDescription", 0, NoBody)}]
  /\ last' = NoLast
  /\ UNCHANGED <<srvVars, chanVars, sockId, userVars, pcVars, iceVars,
                 mediaVars, histVars, budget>>

\* createAndSendOffer: setLocalDescription(offer) resolved, offer emitted
SetLocalOfferResolved(m) ==
  /\ Task("start", "setLocalDescription", 0, NoBody) \in tasks[m]
  /\ tasks' = [tasks EXCEPT ![m] =
                 @ \ {Task("start", "setLocalDescription", 0, NoBody)}]
  /\ IF signalingState[m] = "stable"
       THEN /\ signalingState' = [signalingState EXCEPT ![m] = "have-local-offer"]
            /\ localDescription' = [localDescription EXCEPT ![m] = "offer"]
            /\ Emit(m, Msg("offer", 0, <<m, 0>>))
            /\ last' = NoLast
       ELSE /\ last' = NoLast
            /\ UNCHANGED <<signalingState, localDescription, outbox>>
  /\ UNCHANGED <<srvVars, inbox, sockId, userVars, peerConnection, isInitiator,
                 dataChannel, remoteDescription, connectionState, iceVars,
                 mediaVars, histVars, budget>>

\* ---- client: socket.on('offer') and handleOffer --------------------------
\* (variant: a handler without the duplicate-offer guard)
IgnoreNoOffer(m) == FALSE
\* if (peerConnection && isInitiator) return;
IgnoreOffer(m) == peerConnection[m] /\ isInitiator[m]

RecvOffer(m) ==
  /\ inbox[m] # <<>>
  /\ Head(inbox[m]).type = "offer"
  /\ inbox' = [inbox EXCEPT ![m] = Tail(@)]
  /\ IF IgnoreOffer(m)
       THEN /\ last' = Last(m, "offer", "ignored")
            /\ UNCHANGED <<pcVars, tasks, pcEpoch>>
       ELSE /\ isInitiator' = [isInitiator EXCEPT ![m] = FALSE]
            /\ IF ~peerConnection[m]
                 THEN /\ NewPeerConnection(m)
                      /\ dataChannel' = [dataChannel EXCEPT ![m] =
                                           DataChannelSetup(FALSE, @)]
                      /\ pcEpoch' = [pcEpoch EXCEPT ![m] = nextId]
                 ELSE UNCHANGED <<peerConnection, signalingState,
                                  connectionState, dataChannel, pcEpoch>>
            /\ IF ~peerConnection[m] /\ ~localStream[m]
                 THEN \* localStream.getTracks() throws TypeError outside the try
                      /\ last' = Last(m, "offer", "threw")
                      /\ UNCHANGED tasks
                 ELSE \* up to `await setRemoteDescription(offer)`
                      /\ tasks' = [tasks EXCEPT ![m] = @ \cup
                            {Task("offer", "setRemoteDescription",
                                  Head(inbox[m]).from, Head(inbox[m]).body)}]
                      /\ last' = Last(m, "offer", "handling")
            /\ UNCHANGED <<localDescription, remoteDescription>>
  /\ UNCHANGED <<srvVars, outbox, sockId, userVars, iceVars, mediaVars,
                 startRole, exchanges, budget>>

\* a remote description with the sender's tracks (addTrack(track,
\* localStream) for the video and the audio track): the receivers get their
\* tracks and one track event per track is queued
TracksPerStream == 2
RemoteTracks(m) ==
  IF receivers[m]
    THEN UNCHANGED <<receivers, trackEvents>>
    ELSE /\ receivers' = [receivers EXCEPT ![m] = TRUE]
         /\ trackEvents' = [trackEvents EXCEPT ![m] = TracksPerStream]

\* (variant: `if` instead of `while`: handleOffer goes on to createAnswer
\* after one candidate)
DrainStepOnce(m, t) ==
  IF iceCandidateQueue[m] # <<>> /\ t.stage = "setRemoteDescription"
    THEN /\ applied' = [applied EXCEPT ![m] =
                          Append(@, Head(iceCandidateQueue[m]))]
         /\ iceCandidateQueue' = [iceCandidateQueue EXCEPT ![m] = Tail(@)]
         /\ tasks' = [tasks EXCEPT ![m] = (@ \ {t}) \cup
                        {Task(t.kind, "addIceCandidate", t.from, t.body)}]
    ELSE /\ UNCHANGED <<applied, iceCandidateQueue>>
         /\ tasks' = [tasks EXCEPT ![m] =
                        IF t.kind = "offer"
                          THEN (@ \ {t}) \cup
                               {Task("offer", "createAnswer", t.from, t.body)}
                          ELSE @ \ {t}]

\* one pass through `while (iceCandidateQueue.length > 0)` of the task t, up to
\* the next await: either shift a candidate and call addIceCandidate on it, or
\* leave the loop (handleOffer goes on to createAnswer, handleAnswer is done)
DrainStep(m, t) ==
  IF iceCandidateQueue[m] # <<>>
    THEN /\ applied' = [applied EXCEPT ![m] =
                          Append(@, Shift(iceCandidateQueue[m]).taken)]
         /\ iceCandidateQueue' = [iceCandidateQueue EXCEPT ![m] =
                                    Shift(iceCandidateQueue[m]).left]
         /\ tasks' = [tasks EXCEPT ![m] = (@ \ {t}) \cup
                        {Task(t.kind, "addIceCandidate", t.from, t.body)}]
    ELSE /\ UNCHANGED <<applied, iceCandidateQueue>>
         /\ tasks' = [tasks EXCEPT ![m] =
                        IF t.kind = "offer"
                          THEN (@ \ {t}) \cup
                               {Task("offer", "createAnswer", t.from, t.body)}
                          ELSE @ \ {t}]

\* handleOffer: setRemoteDescription(offer) resolved
SetRemoteOfferResolved(m) ==
  \E t \in tasks[m] :
    /\ t.kind = "offer"
    /\ t.stage = "setRemoteDescription"
    /\ IF signalingState[m] \in {"stable", "have-remote-offer"}
         THEN /\ signalingState' = [signalingState EXCEPT ![m] = "have-remote-offer"]
              /\ remoteDescription' = [remoteDescription EXCEPT ![m] =
                                         Desc("offer", t.from, t.body)]
              /\ RemoteTracks(m)
              /\ DrainStep(m, t)
              /\ last' = NoLast
         ELSE /\ tasks' = [tasks EXCEPT ![m] = @ \ {t}]
              /\ last' = NoLast
              /\ UNCHANGED <<signalingState, remoteDescription, applied,
                             iceCandidateQueue, receivers, trackEvents>>
    /\ UNCHANGED <<srvVars, chanVars, sockId, userVars, peerConnection,
                   isInitiator, dataChannel, localDescription, connectionState,
                   candSent, received, buffered, srcObject, histVars, budget>>

\* handleOffer: setRemoteDescription(offer) rejected, the catch only logs
SetRemoteOfferRejected(m) ==
  \E t \in tasks[m] :
    /\ t.kind = "offer"
    /\ t.stage = "setRemoteDescription"
    /\ tasks' = [tasks EXCEPT ![m] = @ \ {t}]
    /\ last' = Last(m, "setRemoteDescription", "rejected")
    /\ UNCHANGED <<srvVars, chanVars, sockId, userVars, pcVars, iceVars,
                   mediaVars, histVars, budget>>

\* the drain loop of handleOffer or handleAnswer: addIceCandidate resolved
AddIceCandidateResolved(m) ==
  \E t \in tasks[m] :
    /\ t.stage = "addIceCandidate"
    /\ DrainStep(m, t)
    /\ last' = NoLast
    /\ UNCHANGED <<srvVars, chanVars, sockId, userVars, pcVars, candSent,
                   received, buffered, mediaVars, histVars, budget>>

\* handleOffer: createAnswer() resolved, setLocalDescription(answer) called
CreateAnswerResolved(m) ==
  \E t \in tasks[m] :
    /\ t.kind = "offer"
    /\ t.stage = "createAnswer"
    /\ IF signalingState[m] = "have-remote-offer"
         THEN /\ tasks' = [tasks EXCEPT ![m] = (@ \ {t}) \cup
                             {Task("offer", "setLocalDescription", t.from, t.body)}]
              /\ last' = NoLast
         ELSE /\ tasks' = [tasks EXCEPT ![m] = @ \ {t}]
              /\ last' = NoLast
    /\ UNCHANGED <<srvVars, chanVars, sockId, userVars, pcVars, iceVars,
                   mediaVars, histVars, budget>>

\* handleOffer: setLocalDescription(answer) resolved, answer emitted
SetLocalAnswerResolved(m) ==
  \E t \in tasks[m] :
    /\ t.kind = "offer"
    /\ t.stage = "setLocalDescription"
    /\ tasks' = [tasks EXCEPT ![m] = @ \ {t}]
    /\ IF signalingState[m] = "have-remote-offer"
         THEN /\ signalingState' = [signalingState EXCEPT ![m] = "stable"]
              /\ localDescription' = [localDescription EXCEPT ![m] = "answer"]
              /\ Emit(m, Msg("answer", 0, <<m, t.body[1]>>))
              /\ last' = NoLast
         ELSE /\ last' = NoLast
              /\ UNCHANGED <<signalingState, localDescription, outbox>>
    /\ UNCHANGED <<srvVars, inbox, sockId, userVars, peerConnection,
                   isInitiator, dataChannel, remoteDescription, connectionState,
                   iceVars, mediaVars, histVars, budget>>

\* ---- client: socket.on('answer') and handleAnswer ------------------------
\* (variant: a handler without the discard test)
AnyAnswerState(m) == TRUE
\* peerConnection.signalingState !== 'have-local-offer' is the discard test
AnswerStateOk(m) == signalingState[m] = "have-local-offer"

RecvAnswer(m) ==
  /\ inbox[m] # <<>>
  /\ Head(inbox[m]).type = "answer"
  /\ inbox' = [inbox EXCEPT ![m] = Tail(@)]
  /\ IF ~peerConnection[m]
       THEN /\ last' = Last(m, "answer", "no-peer-connection")
            /\ UNCHANGED tasks
       ELSE IF ~AnswerStateOk(m)
              THEN /\ last' = Last(m, "answer", "wrong-state")
                   /\ UNCHANGED tasks
              ELSE \* up to `await setRemoteDescription(answer)`
                   /\ tasks' = [tasks EXCEPT ![m] = @ \cup
                         {Task("answer", "setRemoteDescription",
                               Head(inbox[m]).from, Head(inbox[m]).body)}]
                   /\ last' = Last(m, "answer", "handling")
  /\ UNCHANGED <<srvVars, outbox, sockId, userVars, pcVars, iceVars, mediaVars, histVars,
                 budget>>

\* handleAnswer: setRemoteDescription(answer) resolved
SetRemoteAnswerResolved(m) ==
  \E t \in tasks[m] :
    /\ t.kind = "answer"
    /\ t.stage = "setRemoteDescription"
    /\ IF signalingState[m] = "have-local-offer"
         THEN /\ signalingState' = [signalingState EXCEPT ![m] = "stable"]
              /\ remoteDescription' = [remoteDescription EXCEPT ![m] =
                                         Desc("answer", t.from, t.body)]
              /\ RemoteTracks(m)
              /\ exchanges' = exchanges + 1
              /\ DrainStep(m, t)
              /\ last' = NoLast
         ELSE /\ tasks' = [tasks EXCEPT ![m] = @ \ {t}]
              /\ last' = NoLast
              /\ UNCHANGED <<signalingState, remoteDescription, applied,
                             iceCandidateQueue, receivers, trackEvents,
                             exchanges>>
    /\ UNCHANGED <<srvVars, chanVars, sockId, userVars, peerConnection,
                   isInitiator, dataChannel, localDescription, connectionState,
                   candSent, received, buffered, srcObject, startRole, pcEpoch,
                   budget>>

\* ---- client: socket.on('ice-candidate') and handleIceCandidate -----------
RecvIceCandidate(m) ==
  /\ inbox[m] # <<>>
  /\ Head(inbox[m]).type = "ice-candidate"
  /\ inbox' = [inbox EXCEPT ![m] = Tail(@)]
  /\ received' = [received EXCEPT ![m] = Append(@, Head(inbox[m]).body)]
  /\ IF ~peerConnection[m]
       THEN /\ iceCandidateQueue' = [iceCandidateQueue EXCEPT ![m] =
                                       Push(@, Head(inbox[m]).body)]
            /\ buffered' = [buffered EXCEPT ![m] = Append(@, Head(inbox[m]).body)]
            /\ last' = Last(m, "ice-candidate", "queued-no-peer-connection")
            /\ UNCHANGED applied
       ELSE IF RemoteDescriptionSet(m)
              THEN \* addIceCandidate is called at once
                   /\ applied' = [applied EXCEPT ![m] =
                                    Append(@, Head(inbox[m]).body)]
                   /\ last' = Last(m, "ice-candidate", "added")
                   /\ UNCHANGED <<iceCandidateQueue, buffered>>
              ELSE /\ iceCandidateQueue' = [iceCandidateQueue EXCEPT ![m] =
                                              Push(@, Head(inbox[m]).body)]
                   /\ buffered' = [buffered EXCEPT ![m] =
                                     Append(@, Head(inbox[m]).body)]
                   /\ last' = Last(m, "ice-candidate", "queued")
                   /\ UNCHANGED applied
  /\ UNCHANGED <<srvVars, outbox, sockId, userVars, pcVars, candSent, tasks,
                 mediaVars, histVars, budget>>

\* peerConnection.onicecandidate: gathering starts with the local description
OnIceCandidateEvent(m) ==
  /\ peerConnection[m]
  /\ localDescription[m] # "none"
  /\ budget.cands > 0
  /\ budget.env > 0
  /\ budget' = [budget EXCEPT !.cands = @ - 1, !.env = @ - 1]
  /\ candSent' = [candSent EXCEPT ![m] = @ + 1]
  /\ Emit(m, Msg("ice-candidate", 0, <<m, candSent[m] + 1>>))
  /\ last' = NoLast
  /\ UNCHANGED <<srvVars, inbox, sockId, userVars, pcVars, iceCandidateQueue,
                 received, applied, buffered, tasks, mediaVars, histVars>>

\* peerConnection.onconnectionstatechange to 'connected': the capability
\* reports a path once both ends hold each other's description
Negotiated(m) ==
  /\ peerConnection[m]
  /\ signalingState[m] = "stable"
  /\ localDescription[m] # "none"
  /\ RemoteDescriptionSet(m)

PeerOf(m) == remoteDescription[m].body[1]

\* (variant: a fallback that does not look at remoteVideo.srcObject)
NeedsFallbackUnguarded(m) == receivers[m]
\* if (receivers.length > 0 && !remoteVideo.srcObject), and a receiver has a
\* track
NeedsFallback(m) == receivers[m] /\ srcObject[m] = "none"

OnConnected(m) ==
  /\ connectionState[m] = "new"
  /\ Negotiated(m)
  /\ PeerOf(m) \in Clients
  /\ Negotiated(PeerOf(m))
  /\ connectionState' = [connectionState EXCEPT ![m] = "connected"]
  /\ srcObject' = IF NeedsFallback(m)
                    THEN [srcObject EXCEPT ![m] = "fallback"]
                    ELSE srcObject
  /\ last' = NoLast
  /\ UNCHANGED <<srvVars, chanVars, sockId, userVars, peerConnection,
                 isInitiator, dataChannel, signalingState, localDescription,
                 remoteDescription, iceVars, tasks, receivers, trackEvents,
                 histVars, budget>>

\* peerConnection.ontrack: if (event.streams && event.streams[0])
\* remoteVideo.srcObject = event.streams[0]
OnTrack(m) ==
  /\ trackEvents[m] > 0
  /\ trackEvents' = [trackEvents EXCEPT ![m] = @ - 1]
  /\ srcObject' = [srcObject EXCEPT ![m] = "ontrack"]
  /\ last' = NoLast
  /\ UNCHANGED <<srvVars, chanVars, sockId, userVars, pcVars, iceVars, tasks,
                 receivers, histVars, budget>>

DoConnection == \E m \in Clients : Connection(m)
DoOnReady == \E m \in Clients : OnReady(m)
DoOnOffer == \E m \in Clients : OnOffer(m)
DoOnAnswer == \E m \in Clients : OnAnswer(m)
DoOnIceCandidate == \E m \in Clients : OnIceCandidate(m)
DoOnDisconnect == \E m \in Clients : OnDisconnect(m)
DoClick == \E m \in Clients : Click(m)
DoGetUserMediaResolved == \E m \in Clients : GetUserMediaResolved(m)
DoRecvStartCall == \E m \in Clients : RecvStartCall(m)
DoCreateOfferResolved == \E m \in Clients : CreateOfferResolved(m)
DoSetLocalOfferResolved == \E m \in Clients : SetLocalOfferResolved(m)
DoRecvOffer == \E m \in Clients : RecvOffer(m)
DoSetRemoteOfferResolved == \E m \in Clients : SetRemoteOfferResolved(m)
DoAddIceCandidateResolved == \E m \in Clients : AddIceCandidateResolved(m)
DoCreateAnswerResolved == \E m \in Clients : CreateAnswerResolved(m)
DoSetLocalAnswerResolved == \E m \in Clients : SetLocalAnswerResolved(m)
DoRecvAnswer == \E m \in Clients : RecvAnswer(m)
DoSetRemoteAnswerResolved == \E m \in Clients : SetRemoteAnswerResolved(m)
DoRecvIceCandidate == \E m \in Clients : RecvIceCandidate(m)
DoOnIceCandidateEvent == \E m \in Clients : OnIceCandidateEvent(m)
DoOnConnected == \E m \in Clients : OnConnected(m)
DoOnTrack == \E m \in Clients : OnTrack(m)
DoClosePage == \E m \in Clients : ClosePage(m)
DoLoadTurnCredentialsResolved ==
  \E m \in Clients : LoadTurnCredentialsResolved(m)
DoSetRemoteOfferRejected == \E m \in Clients : SetRemoteOfferRejected(m)

\* what the server and the machines do by themselves while signaling
SignalSysNext ==
  \/ DoOnReady
  \/ DoOnOffer
  \/ DoOnAnswer
  \/ DoGetUserMediaResolved
  \/ DoRecvStartCall
  \/ DoCreateOfferResolved
  \/ DoSetLocalOfferResolved
  \/ DoRecvOffer
  \/ DoSetRemoteOfferResolved
  \/ DoCreateAnswerResolved
  \/ DoSetLocalAnswerResolved
  \/ DoRecvAnswer
  \/ DoSetRemoteAnswerResolved

\* the same with the candidate exchange and the connection coming up
SysNext ==
  \/ SignalSysNext
  \/ DoOnConnected
  \/ DoOnIceCandidate
  \/ DoRecvIceCandidate
  \/ DoAddIceCandidateResolved

Next ==
  \/ DoConnection
  \/ DoOnDisconnect
  \/ DoClick
  \/ DoOnIceCandidateEvent
  \/ SysNext

Spec == Init /\ [][Next]_vars

\* registration, election and offer/answer, before any candidate is gathered
SignalNext ==
  \/ DoConnection
  \/ DoOnDisconnect
  \/ DoClick
  \/ SignalSysNext

SignalSpec == InitSignal /\ [][SignalNext]_vars

\* two pages whose sockets stay open; the server and the machines keep
\* running, the capability resolves every pending promise
PairNext ==
  \/ DoConnection
  \/ DoClick
  \/ DoOnIceCandidateEvent
  \/ SysNext

PairSpec == InitPair /\ [][PairNext]_vars /\ WF_vars(SysNext)

\* the same with fewer candidates
LiveSpec == InitLive /\ [][PairNext]_vars /\ WF_vars(SysNext)

\* the registry and the elector alone: sockets open and close, pages signal
\* ready, no page handles what it is sent
RegistryNext ==
  \/ DoConnection
  \/ DoOnDisconnect
  \/ DoClick
  \/ DoGetUserMediaResolved
  \/ DoOnReady

RegistrySpec == InitRegistry /\ [][RegistryNext]_vars

\* two pages whose credential fetch ends in any way or not at all, while the
\* server and the machines keep running
TurnNext ==
  \/ DoConnection
  \/ DoClick
  \/ DoLoadTurnCredentialsResolved
  \/ SignalSysNext

TurnSpec == InitTurn /\ [][TurnNext]_vars /\ WF_vars(SignalSysNext)

\* two pages whose setRemoteDescription(offer) may be rejected
OfferNext ==
  \/ PairNext
  \/ DoSetRemoteOfferRejected

OfferSpec == InitOffer /\ [][OfferNext]_vars

\* three pages whose sockets stay open, before any candidate is gathered
TrioNext ==
  \/ DoConnection
  \/ DoClick
  \/ SignalSysNext

TrioSpec == InitTrio /\ [][TrioNext]_vars

\* the same with the candidate exchange
IceNext ==
  \/ TrioNext
  \/ DoOnIceCandidateEvent
  \/ DoOnIceCandidate
  \/ DoRecvIceCandidate
  \/ DoAddIceCandidateResolved

IceSpec == InitIce /\ [][IceNext]_vars

\* two pages whose sockets stay open, with the track events of the peer
\* connections and the connection coming up
MediaNext ==
  \/ DoConnection
  \/ DoClick
  \/ SignalSysNext
  \/ DoOnTrack
  \/ DoOnConnected

MediaSpec == InitMedia /\ [][MediaNext]_vars

\* two page slots in which pages are opened and closed
SessionsNext ==
  \/ DoConnection
  \/ DoClick
  \/ DoClosePage
  \/ SignalSysNext

SessionsSpec == InitSessions /\ [][SessionsNext]_vars

\* three pages whose sockets open and close, before any candidate is gathered
DropSpec == InitDrop /\ [][SignalNext]_vars

\* ---- properties: the elector --------------------------------------------
\* the start-call an OnReady step has just appended to every open socket
StartCallSent(k) ==
  /\ Len(inbox'[k]) = Len(inbox[k]) + 1
  /\ inbox'[k] = Append(inbox[k], inbox'[k][Len(inbox'[k])])
  /\ inbox'[k][Len(inbox'[k])].type = "start-call"

ThirdReadyNoElection ==
  [][\A m \in Clients :
       (OnReady(m) /\ Len(readyClients') > 2) => inbox' = inbox]_vars

\* three sockets are ready and the third one's ready has been handled
ThirdReadyNoElectionWitness ==
  /\ Len(readyClients) = 3
  /\ readyCount = 3

\* C10: a ready that leaves the ready set as it was sends no start-call
RepeatedReadyEmitsNoStartCall ==
  [][\A m \in Clients :
       (OnReady(m) /\ readyClients' = readyClients) => inbox' = inbox]_vars

\* ---- properties: the candidate buffer -----------------------------------
Occurrences(x, s) == Cardinality({i \in 1..Len(s) : s[i] = x})

\* a drain loop of machine m is suspended at `await addIceCandidate`
Draining(m) == \E t \in tasks[m] : t.stage = "addIceCandidate"

\* C3: the candidates a machine has buffered are applied in the order they
\* were buffered: those applied so far, followed by those still in the queue,
\* are the buffered ones in their order of arrival
BufferedAppliedInOrder ==
  \A m \in Clients :
    SelectSeq(applied[m], LAMBDA c : InSeq(c, buffered[m]))
      \o iceCandidateQueue[m] = buffered[m]

\* three candidates were buffered before the remote description and the drain
\* has applied all three
BufferedAppliedInOrderWitness ==
  \E m \in Clients :
    /\ Len(buffered[m]) = 3
    /\ applied[m] = buffered[m]
    /\ iceCandidateQueue[m] = <<>>
    /\ RemoteDescriptionSet(m)

\* C4: addIceCandidate is called on the candidates in the order the machine
\* received them
AppliedInReceiveOrder ==
  \A m \in Clients :
    applied[m] = SelectSeq(received[m], LAMBDA c : InSeq(c, applied[m]))

Untouched == UNCHANGED <<pcVars, iceVars, tasks, outbox>>

\* C6: an answer handled by a machine that is not the initiator, or has no
\* peer connection, or whose signaling state is not have-local-offer, changes
\* nothing: peer connection, role, descriptions, candidate queue, pending
\* work and emitted messages stay as they were
AnswerDiscarded ==
  [][\A m \in Clients :
       (/\ last'.ev = "answer"
        /\ last'.m = m
        /\ ~(isInitiator[m] /\ peerConnection[m]
             /\ signalingState[m] = "have-local-offer"))
       => Untouched]_vars

\* an answer reached a machine whose peer connection was not in
\* have-local-offer and was discarded
AnswerDiscardedWitness ==
  /\ last.ev = "answer"
  /\ last.out = "wrong-state"
  /\ peerConnection[last.m]

\* C7: an offer handled by a machine that has a peer connection and is the
\* initiator changes nothing and emits no answer
OfferIgnoredByInitiator ==
  [][\A m \in Clients :
       (/\ last'.ev = "offer"
        /\ last'.m = m
        /\ peerConnection[m]
        /\ isInitiator[m])
       => Untouched]_vars

\* the initiator has just handled an offer
OfferIgnoredByInitiatorWitness ==
  /\ last.ev = "offer"
  /\ last.out = "ignored"
  /\ peerConnection[last.m]
  /\ isInitiator[last.m]

\* the machine took the answerer branch of the start-call handler
Answering(m) == startRole[m] = "answerer"

\* C8: an offer handled by a machine that is not Answering changes nothing,
\* emits no answer and throws nothing
OfferIgnoredUnlessAnswering ==
  [][\A m \in Clients :
       (/\ last'.ev = "offer"
        /\ last'.m = m
        /\ ~Answering(m))
       => (Untouched /\ last'.out # "threw")]_vars

\* ---- properties: end to end ----------------------------------------------
BothReady == Len(readyClients) = 2

BothConnected ==
  \A m \in 1..2 :
    /\ connectionState[m] = "connected"
    /\ RemoteDescriptionSet(m)
    /\ iceCandidateQueue[m] = <<>>

\* C9: once both participants are ready, both machines eventually are
\* connected with their remote description applied and an empty candidate
\* queue
PairEventuallyConnected == BothReady ~> BothConnected

\* both are connected and each has applied a candidate of the other
PairEventuallyConnectedWitness ==
  /\ BothConnected
  /\ \A m \in 1..2 : applied[m] # <<>> /\ Len(applied[m]) = Len(received[m])

\* ---- properties: the relay and the registry ------------------------------
\* a step of one of the three relay handlers for the socket of machine m
Relayed(m) == OnOffer(m) \/ OnAnswer(m) \/ OnIceCandidate(m)

\* C11: a relayed offer, answer or candidate is appended once to the inbox of
\* every other open socket, with the sender's body and from = the sender's
\* id; the sender's inbox and the closed sockets get nothing
RelayToOthersOnce ==
  [][\A m \in Clients :
       Relayed(m) =>
         \A k \in Clients :
           inbox'[k] = IF k \in Connected \ {m}
                         THEN Append(inbox[k],
                                [type |-> Head(outbox[m]).type,
                                 from |-> sockId[m],
                                 body |-> Head(outbox[m]).body])
                         ELSE inbox[k]]_vars

\* an offer of one socket sits in the inboxes of the two other sockets and
\* not in its own
RelayToOthersOnceWitness ==
  \E m \in Clients :
    /\ sockId[m] # 0
    /\ \A k \in Clients \ {m} :
         /\ sockId[k] # 0
         /\ Occurrences(Msg("offer", sockId[m], <<m, 0>>), inbox[k]) = 1
    /\ Occurrences(Msg("offer", sockId[m], <<m, 0>>), inbox[m]) = 0

\* C12: the disconnect handler removes the socket's id, and nothing else, from
\* the connected set and from the ready set, and broadcasts the new connected
\* count; every ready-count broadcast afterwards is the size of a ready set
\* that holds connected sockets only
DisconnectRemovesOnce ==
  [][/\ \A m \in Clients :
          OnDisconnect(m) =>
            /\ clients' = clients \ {sockId[m]}
            /\ readyClients' = SeqWithout(readyClients, sockId[m])
            /\ ~InSeq(sockId[m], readyClients')
            /\ userCount' = Cardinality(clients')
     /\ \A m \in Clients :
          OnReady(m) =>
            /\ readyCount' = Len(readyClients')
            /\ \A i \in 1..Len(readyClients') : readyClients'[i] \in clients'
    ]_vars

\* a ready socket has gone: the connected count broadcast last is the new
\* size, the ready set is smaller than the ready count broadcast before
DisconnectRemovesOnceWitness ==
  /\ userCount = Cardinality(clients)
  /\ userCount < nextId - 1
  /\ Len(readyClients) < readyCount

\* C13: the ready-count broadcast last is the size of the ready set
ReadyCountIsCurrent == readyCount = Len(readyClients)

\* C14: applying the ready handler's add, or the disconnect handler's
\* deletes, to the registry they have just produced changes nothing; a ready
\* from a socket that is already ready leaves the ready set as it is
RegistryIdempotent ==
  [][/\ \A m \in Clients :
          OnReady(m) =>
            /\ SetAdd(readyClients', sockId[m]) = readyClients'
            /\ InSeq(sockId[m], readyClients) => readyClients' = readyClients
            /\ clients' = clients
     /\ \A m \in Clients :
          OnDisconnect(m) =>
            /\ SetDelete(readyClients', sockId[m]) = readyClients'
            /\ clients' \ {sockId[m]} = clients'
    ]_vars

\* the same socket's ready was handled twice with two sockets ready: each
\* page holds the two start-calls
RegistryIdempotentWitness ==
  /\ nextId = 3
  /\ Len(readyClients) = 2
  /\ \E k \in Clients :
       Occurrences(Msg("start-call", 0, <<readyClients[1], 0>>), inbox[k]) = 2

\* C17: the ready step that takes the ready set from one socket to two sends
\* start-call to every open socket
GrowthToTwoElects ==
  [][\A m \in Clients :
       (OnReady(m) /\ Len(readyClients) = 1 /\ Len(readyClients') = 2) =>
         \A k \in Connected : StartCallSent(k)]_vars

\* two sockets are ready and both hold exactly the one start-call
GrowthToTwoElectsWitness ==
  /\ Len(readyClients) = 2
  /\ \A k \in Clients :
       InSeq(sockId[k], readyClients) =>
         inbox[k] = <<Msg("start-call", 0, <<readyClients[1], 0>>)>>
  /\ \E k \in Clients : InSeq(sockId[k], readyClients)

\* ---- properties: the roles ------------------------------------------------
\* C15: at most one machine with an open socket has isInitiator set
AtMostOneInitiator ==
  Cardinality({m \in Connected : isInitiator[m]}) <= 1

\* the message machine m has just emitted, if it emitted one
Emitted(m, t) ==
  /\ Len(outbox'[m]) = Len(outbox[m]) + 1
  /\ outbox'[m] = Append(outbox[m], outbox'[m][Len(outbox'[m])])
  /\ outbox'[m][Len(outbox'[m])].type = t

\* C16: a machine that emits an offer took the initiator branch of the
\* start-call handler (the start-call named its socket id); the handling of a
\* start-call that names another id starts no offer and emits nothing
OfferOnlyFromDesignated ==
  [][\A m \in Clients :
       /\ Emitted(m, "offer") =>
            (startRole[m] = "initiator" /\ isInitiator[m])
       /\ (/\ last'.ev = "start-call"
           /\ last'.m = m
           /\ Head(inbox[m]).body[1] # sockId[m])
          => UNCHANGED <<pcVars, tasks, outbox>>]_vars

\* the designated machine's offer has reached a machine that took the
\* answerer branch and has emitted nothing since its ready
OfferOnlyFromDesignatedWitness ==
  \E m, k \in Clients :
    /\ startRole[m] = "initiator"
    /\ startRole[k] = "answerer"
    /\ InSeq(Msg("offer", sockId[m], <<m, 0>>), inbox[k])
    /\ outbox[k] = <<>>
    /\ localDescription[k] = "none"

\* C20: the start-call handler of a machine with local media and no peer
\* connection creates the peer connection as initiator and starts the offer
\* exactly when the start-call names its socket id, and otherwise touches
\* nothing and emits nothing; without local media or with a peer connection
\* it does nothing at all; the offer once started is emitted when its
\* setLocalDescription resolves
StartCallHandled ==
  [][/\ \A m \in Clients :
       (last'.ev = "start-call" /\ last'.m = m) =>
         IF ~peerConnection[m] /\ localStream[m]
           THEN IF Head(inbox[m]).body[1] = sockId[m]
                  THEN /\ isInitiator'[m]
                       /\ peerConnection'[m]
                       /\ tasks'[m] = tasks[m]
                            \cup {Task("start", "createOffer", 0, NoBody)}
                  ELSE UNCHANGED <<pcVars, tasks, outbox>>
           ELSE UNCHANGED <<pcVars, tasks, outbox, startRole>>
     /\ \A m \in Clients :
          (/\ Task("start", "setLocalDescription", 0, NoBody) \in tasks[m]
           /\ Task("start", "setLocalDescription", 0, NoBody) \notin tasks'[m])
          => Emitted(m, "offer")]_vars

\* a start-call was ignored by a machine that has a peer connection, after
\* one machine took the initiator branch and one the answerer branch
StartCallHandledWitness ==
  /\ last.ev = "start-call"
  /\ last.out = "ignored"
  /\ peerConnection[last.m]
  /\ \E m, k \in Clients :
       startRole[m] = "initiator" /\ startRole[k] = "answerer"

\* ---- properties: failures of the environment ----------------------------
BothNegotiated == \A m \in 1..2 : Negotiated(m)

\* C18: the configuration's server list is never empty and is the default
\* list after a failed credential fetch; and whatever happens to the fetch,
\* two ready pages go on to hold each other's description
FetchFailureDoesNotBlock ==
  /\ [](\A m \in Clients :
          /\ iceServers[m] # {}
          /\ turnFetch[m] \in TurnFailures => iceServers[m] = DefaultIceServers)
  /\ (BothReady ~> BothNegotiated)

\* both fetches failed, in different ways, and both pages have negotiated
FetchFailureDoesNotBlockWitness ==
  /\ turnFetch[1] \in TurnFailures
  /\ turnFetch[2] \in TurnFailures \ {turnFetch[1]}
  /\ BothNegotiated
  /\ \A m \in 1..2 : iceServers[m] = DefaultIceServers

\* C19: handleOffer reaches createAnswer only with the offer applied and the
\* queue drained, emits the answer only then and with every buffered
\* candidate applied, and after a rejected setRemoteDescription(offer) the
\* invocation is over with nothing emitted and nothing applied
AnswerAfterOfferApplied ==
  [][\A m \in Clients :
       /\ \A t \in tasks'[m] :
            (t.kind = "offer" /\ t.stage \in {"createAnswer", "setLocalDescription"})
            => (remoteDescription'[m].type = "offer"
                /\ iceCandidateQueue'[m] = <<>>)
       /\ Emitted(m, "answer") =>
            /\ remoteDescription[m].type = "offer"
            /\ iceCandidateQueue[m] = <<>>
            /\ \A i \in 1..Len(buffered[m]) : InSeq(buffered[m][i], applied[m])
       /\ (last'.out = "rejected" /\ last'.m = m) =>
            /\ UNCHANGED <<pcVars, iceVars, outbox>>
            /\ tasks'[m] # tasks[m]
            /\ tasks'[m] \subseteq tasks[m]]_vars

\* a machine has emitted its answer after draining two buffered candidates
AnswerAfterOfferAppliedWitness ==
  \E m \in Clients :
    /\ localDescription[m] = "answer"
    /\ Len(buffered[m]) = 2
    /\ applied[m] = buffered[m]
    /\ remoteDescription[m].type = "offer"

\* ---- properties: nothing is retried ---------------------------------------
\* C22: a machine emits at most one offer: it emits an offer only while it
\* has no local description, the emission sets the local description, and a
\* local description once set is never cleared
AtMostOneOffer ==
  [][\A m \in Clients :
       /\ Emitted(m, "offer") =>
            (localDescription[m] = "none" /\ localDescription'[m] = "offer")
       /\ localDescription[m] # "none" =>
            localDescription'[m] = localDescription[m]]_vars

\* a machine that has emitted its offer has since ignored a further
\* start-call
AtMostOneOfferWitness ==
  /\ last.ev = "start-call"
  /\ last.out = "ignored"
  /\ localDescription[last.m] = "offer"
  /\ isInitiator[last.m]
  /\ \A k \in Clients : Len(outbox[k]) = 0

\* ---- properties: the disconnect handler ----------------------------------
\* C25: a disconnect broadcasts the connected count and nothing else: no
\* message reaches any other socket (so no start-call), the ready count is
\* not broadcast, also when the ready set shrinks from three to two
DisconnectEmitsOnlyCount ==
  [][\A m \in Clients :
       OnDisconnect(m) =>
         /\ \A k \in Clients \ {m} : inbox'[k] = inbox[k]
         /\ userCount' = Cardinality(clients')
         /\ readyCount' = readyCount]_vars

\* the ready set has shrunk from three to two and no socket has received
\* more than the one start-call of the growth to two
DisconnectEmitsOnlyCountWitness ==
  /\ Len(readyClients) = 2
  /\ readyCount = 3
  /\ userCount = 2
  /\ \A k \in Connected : Len(inbox[k]) = 1

\* ---- properties: where start-call comes from ----------------------------
\* C28: a start-call reaches a socket only in a step of the ready handler,
\* the ready set then holds exactly two ids, and the id the start-call names
\* is an open socket and a member of the ready set
StartCallOnlyFromReady ==
  [][\A k \in Clients :
       StartCallSent(k) =>
         /\ \E m \in Clients : OnReady(m)
         /\ Len(readyClients') = 2
         /\ inbox'[k][Len(inbox'[k])].body[1] \in clients'
         /\ InSeq(inbox'[k][Len(inbox'[k])].body[1], readyClients')]_vars

\* a socket that is not ready holds the start-call of the two ready ones,
\* which names an open, ready socket
StartCallOnlyFromReadyWitness ==
  \E k \in Connected :
    /\ ~InSeq(sockId[k], readyClients)
    /\ Len(readyClients) = 2
    /\ inbox[k] # <<>>
    /\ Head(inbox[k]).type = "start-call"
    /\ Head(inbox[k]).body[1] \in clients
    /\ InSeq(Head(inbox[k]).body[1], readyClients)

\* ---- properties: the relay keeps nothing ---------------------------------
\* C29: a message reaches a machine only while its socket is open, a machine
\* without an open socket holds no message, and connecting delivers nothing:
\* what the relay handled before a socket connected never reaches it
RelayKeepsNothing ==
  /\ [](\A k \in Clients : sockId[k] = 0 => inbox[k] = <<>>)
  /\ [][\A k \in Clients :
          /\ Len(inbox'[k]) > Len(inbox[k]) =>
               (sockId[k] # 0 /\ sockId'[k] = sockId[k])
          /\ Connection(k) => inbox'[k] = <<>>]_vars

\* an offer has been relayed and handled by another machine, and a machine
\* whose socket is open now has received nothing and handled no offer
RelayKeepsNothingWitness ==
  \E r, b, k \in Clients :
    /\ r # b /\ r # k /\ b # k
    /\ localDescription[r] = "offer"
    /\ outbox[r] = <<>>
    /\ peerConnection[b] /\ ~isInitiator[b]
    /\ sockId[k] # 0
    /\ inbox[k] = <<>>
    /\ ~peerConnection[k]

\* ---- properties: the data channel ------------------------------------------
\* C30: the data channel is created only in the step in which a machine
\* takes the initiator branch of the start-call handler and creates its peer
\* connection; a machine holding a created channel has the initiator flag
\* and never sets an answer; handling an offer creates none
DataChannelOnlyByInitiator ==
  /\ [](\A m \in Clients :
          dataChannel[m] = "created" =>
            (peerConnection[m] /\ isInitiator[m]
             /\ localDescription[m] # "answer"))
  /\ [][\A m \in Clients :
          /\ dataChannel'[m] # dataChannel[m] =>
               /\ ~peerConnection[m] /\ peerConnection'[m]
               /\ last' = Last(m, "start-call", "initiator")
          /\ (last'.ev = "offer" /\ last'.m = m) =>
               dataChannel'[m] = dataChannel[m]]_vars

\* after a negotiation the initiator holds the channel it created and the
\* answerer has created none
DataChannelOnlyByInitiatorWitness ==
  \E m, k \in Clients :
    /\ dataChannel[m] = "created"
    /\ remoteDescription[m].type = "answer"
    /\ localDescription[k] = "answer"
    /\ dataChannel[k] = "none"

\* ---- properties: three machines ------------------------------------------
\* C23: once an answer is a machine's remote description, that description
\* is never replaced, and every answer the machine handles afterwards is
\* discarded without touching anything
AtMostOneAnswerApplied ==
  [][\A m \in Clients :
       /\ remoteDescription[m].type = "answer" =>
            remoteDescription'[m] = remoteDescription[m]
       /\ (/\ last'.ev = "answer"
           /\ last'.m = m
           /\ remoteDescription[m].type = "answer")
          => (last'.out = "wrong-state" /\ Untouched)]_vars

\* two machines answered the broadcast offer; the initiator has applied the
\* answer of one and has just discarded the answer of the other
AtMostOneAnswerAppliedWitness ==
  /\ last.ev = "answer"
  /\ last.out = "wrong-state"
  /\ remoteDescription[last.m].type = "answer"
  /\ \E k \in Clients \ {last.m, PeerOf(last.m)} : localDescription[k] = "answer"

\* C21: the candidates a machine holds in its queue all come from one
\* sender, and every candidate it has applied was sent by the machine whose
\* offer or answer is its remote description
CandidatesFromPeerOnly ==
  \A m \in Clients :
    /\ \A i, j \in 1..Len(iceCandidateQueue[m]) :
         iceCandidateQueue[m][i][1] = iceCandidateQueue[m][j][1]
    /\ \A i \in 1..Len(applied[m]) :
         RemoteDescriptionSet(m) /\ applied[m][i][1] = PeerOf(m)

\* ---- properties: a second session ----------------------------------------
\* C24: after an answer has been applied as remote description (two
\* participants have negotiated), no machine ever applies an answer again
NoSecondSession == exchanges <= 1

\* ---- properties: a participant leaves mid-negotiation -------------------
\* C26: a machine whose socket was opened after machine r created its peer
\* connection, and which the elector has since paired with r (the two are
\* the ready set, r first, and the machine took the answerer branch), never
\* gets to handle an offer from r
NoOfferFromRemaining ==
  [][\A k \in Clients :
       (last'.ev = "offer" /\ last'.m = k /\ last'.out = "handling") =>
         LET r == Head(inbox[k]).body[1] IN
           ~(/\ pcEpoch[r] > 0
             /\ sockId[k] >= pcEpoch[r]
             /\ sockId[r] # 0
             /\ readyClients = <<sockId[r], sockId[k]>>
             /\ startRole[k] = "answerer")]_vars

\* ---- properties: the inbound stream --------------------------------------
\* C27: the handler of the change to connected attaches the fallback stream
\* exactly when nothing is attached yet and the receivers have a track, and
\* otherwise leaves what is attached (a stream attached by ontrack is not
\* replaced); so a connected machine whose receivers have a track always
\* has an inbound stream attached
InboundStreamAttached ==
  /\ [](\A m \in Clients :
          (connectionState[m] = "connected" /\ receivers[m]) =>
            srcObject[m] # "none")
  /\ [][\A m \in Clients :
          OnConnected(m) =>
            srcObject'[m] = IF srcObject[m] = "none" /\ receivers[m]
                              THEN "fallback" ELSE srcObject[m]]_vars

\* one machine connected before any of its track events was handled and
\* got the fallback stream; the other had its stream from ontrack and kept it
InboundStreamAttachedWitness ==
  \E m, k \in Clients :
    /\ connectionState[m] = "connected"
    /\ srcObject[m] = "fallback"
    /\ trackEvents[m] = TracksPerStream
    /\ connectionState[k] = "connected"
    /\ srcObject[k] = "ontrack"

\* ---- properties: the registry and the ready set -----------------------
\* C31: every id in the ready set is the id of an open socket
ReadyAreConnected ==
  \A i \in 1..Len(readyClients) : readyClients[i] \in clients

\* a ready socket has closed while another ready one stays: the ready set
\* has shrunk with the connected set
ReadyAreConnectedWitness ==
  /\ Len(readyClients) = 1
  /\ readyCount = 2
  /\ Cardinality(clients) = 2
  /\ nextId = 4

RoleNeverChanges ==
  [][\A m \in Clients :
       (peerConnection[m] /\ peerConnection'[m]) =>
         /\ isInitiator'[m] = isInitiator[m]
         /\ isInitiator[m] =>
              (~Emitted(m, "answer") /\ remoteDescription'[m].type # "offer")
         /\ ~isInitiator[m] => ~Emitted(m, "offer")]_vars

\* a machine that answered has since been named by a second election and
\* ignored that start-call, while the initiator still holds its offer
RoleNeverChangesWitness ==
  \E m, k \in Clients :
    /\ peerConnection[m] /\ isInitiator[m] /\ localDescription[m] = "offer"
    /\ peerConnection[k] /\ ~isInitiator[k] /\ localDescription[k] = "answer"
    /\ last = Last(k, "start-call", "ignored")
    /\ readyClients # <<>>
    /\ readyClients[1] = sockId[k]

\* ---- properties: what the relay leaves alone ----------------------------
StartCalls(q) == SelectSeq(q, LAMBDA e : e.type = "start-call")

\* C34: relaying an offer, answer or candidate changes neither the connected
\* set nor the ready set (members and order), broadcasts neither count, and
\* sends no start-call to any socket
RelayLeavesRegistry ==
  [][\A m \in Clients :
       Relayed(m) =>
         /\ UNCHANGED <<clients, readyClients, readyArrival, nextId>>
         /\ UNCHANGED <<userCount, readyCount>>
         /\ \A k \in Clients : StartCalls(inbox'[k]) = StartCalls(inbox[k])]_vars

\* a candidate has been relayed to a socket that still holds it, with two
\* sockets ready and the counts as last broadcast
RelayLeavesRegistryWitness ==
  \E k \in Connected :
    /\ inbox[k] # <<>>
    /\ inbox[k][Len(inbox[k])].type = "ice-candidate"
    /\ Len(readyClients) = 2
    /\ readyCount = 2
    /\ userCount = Cardinality(clients)

\* ---- properties: the counts that are broadcast -------------------------
\* C35: the user-count is broadcast only by the connection and disconnect
\* handlers and carries the number of open sockets after the change; the
\* ready-count is broadcast only by the ready handler and carries the size
\* of the ready set after the add
CountsAtEmission ==
  [][/\ \A m \in Clients :
          /\ (Connection(m) \/ OnDisconnect(m)) =>
               userCount' = Cardinality(clients')
          /\ OnReady(m) => readyCount' = Len(readyClients')
     /\ userCount' # userCount =>
          \E m \in Clients : Connection(m) \/ OnDisconnect(m)
     /\ readyCount' # readyCount => \E m \in Clients : OnReady(m)]_vars

\* two sockets are open and ready after a third one has closed, and both
\* counts are the sizes of their sets
CountsAtEmissionWitness ==
  /\ Len(readyClients) = 2
  /\ readyCount = 2
  /\ userCount = 2
  /\ Cardinality(clients) = 2
  /\ nextId = 4

\* ---- properties: answers -------------------------------------------------
\* C36: a machine whose socket has been open since before it created its
\* peer connection emits an answer only while it has no local description:
\* under one socket id it emits at most one answer
AtMostOneAnswer ==
  [][\A m \in Clients :
       (/\ Emitted(m, "answer")
        /\ sockId[m] # 0
        /\ sockId[m] < pcEpoch[m])
       => localDescription[m] = "none"]_vars

====
